---- MODULE Spec2Model ----
(***************************************************************************)
(* State-machine model of the delay-spectrum pipeline of PRISim:           *)
(*   src/modules/delay_spectrum.py  (_gentle_clean, class DelaySpectrum)   *)
(*   src/modules/interferometry.py  (class InterferometerArray)            *)
(*                                                                         *)
(* Numbers.  A numpy complex scalar is modelled exactly as a Gaussian      *)
(* rational <<re, im, den>> (value (re + i*im)/den, den > 0, lowest        *)
(* terms).  The non-finite results numpy produces without raising (0/0,    *)
(* x/0, std of an empty selection) are the single value NaN = <<0,0,0>>,   *)
(* which absorbs every arithmetic operation and makes every comparison     *)
(* false, as IEEE NaN does.                                                *)
(* A standard deviation (NP.std) is represented by its square, the         *)
(* variance: the code only compares standard deviations and multiplies     *)
(* them by non-negative factors, which the squares preserve.               *)
(* Transforms are exact discrete Fourier transforms; the transform lengths *)
(* of the model divide 4, so every twiddle factor is a power of i.         *)
(***************************************************************************)
EXTENDS Integers, Sequences, FiniteSets, TLC

\* --------------------------------------------------------------------------
\* Exact complex arithmetic
\* --------------------------------------------------------------------------
NaN == <<0, 0, 0>>

IAbs(n) == IF n < 0 THEN -n ELSE n

RECURSIVE GCD(_, _)
GCD(a, b) == IF b = 0 THEN a ELSE GCD(b, a % b)

\* lowest terms, positive denominator; a zero denominator is NaN
Norm(a, b, d) ==
    IF d = 0 THEN NaN
    ELSE LET g == GCD(GCD(IAbs(a), IAbs(b)), IAbs(d))
             s == IF d < 0 THEN -1 ELSE 1
         IN  <<(s * a) \div g, (s * b) \div g, (s * d) \div g>>

Q(n, d) == Norm(n, 0, d)
Zero == <<0, 0, 1>>
One == <<1, 0, 1>>
IsNaN(x) == x[3] = 0

CAdd(x, y) == IF IsNaN(x) \/ IsNaN(y) THEN NaN
              ELSE Norm(x[1] * y[3] + y[1] * x[3], x[2] * y[3] + y[2] * x[3], x[3] * y[3])
CNeg(x) == IF IsNaN(x) THEN NaN ELSE <<-x[1], -x[2], x[3]>>
CSub(x, y) == CAdd(x, CNeg(y))
CMul(x, y) == IF IsNaN(x) \/ IsNaN(y) THEN NaN
              ELSE Norm(x[1] * y[1] - x[2] * y[2], x[1] * y[2] + x[2] * y[1], x[3] * y[3])
CConj(x) == IF IsNaN(x) THEN NaN ELSE <<x[1], -x[2], x[3]>>
\* |x|^2 as a real
Abs2(x) == IF IsNaN(x) THEN NaN ELSE Norm(x[1] * x[1] + x[2] * x[2], 0, x[3] * x[3])
\* x / y; division by zero gives a non-finite value, never an exception
CDiv(x, y) ==
    IF IsNaN(x) \/ IsNaN(y) THEN NaN
    ELSE LET n == y[1] * y[1] + y[2] * y[2]
         IN  IF n = 0 THEN NaN
             ELSE Norm((x[1] * y[1] + x[2] * y[2]) * y[3],
                       (x[2] * y[1] - x[1] * y[2]) * y[3], x[3] * n)

\* comparisons of reals; every comparison with NaN is false
RLt(x, y) == ~IsNaN(x) /\ ~IsNaN(y) /\ x[1] * y[3] < y[1] * x[3]
RLe(x, y) == ~IsNaN(x) /\ ~IsNaN(y) /\ x[1] * y[3] <= y[1] * x[3]
RGt(x, y) == RLt(y, x)
RGe(x, y) == RLe(y, x)

\* the non-negative square root of a real that is a perfect square (|x| of
\* the values the model handles); NaN for NaN
RECURSIVE ISqrtFrom(_, _)
ISqrtFrom(n, k) == IF k * k >= n THEN k ELSE ISqrtFrom(n, k + 1)
RSqrt(x) == IF IsNaN(x) THEN NaN ELSE Q(ISqrtFrom(x[1], 0), ISqrtFrom(x[3], 0))

\* int(x) of a non-negative real
Floor(x) == x[1] \div x[3]

\* an array held by value: every element computed once
Arr(x) == x \o <<>>

\* --------------------------------------------------------------------------
\* Vectors (1-D arrays) are sequences
\* --------------------------------------------------------------------------
VMap2(Op(_, _), x, y) == Arr([i \in 1..Len(x) |-> Op(x[i], y[i])])
VAdd(x, y) == VMap2(CAdd, x, y)
VSub(x, y) == VMap2(CSub, x, y)
VScale(x, c) == Arr([i \in 1..Len(x) |-> CMul(x[i], c)])
VDivBy(x, c) == Arr([i \in 1..Len(x) |-> CDiv(x[i], c)])
Zeros(n) == Arr([i \in 1..n |-> Zero])

RECURSIVE SumSeq(_)
SumSeq(x) == IF Len(x) = 0 THEN Zero ELSE CAdd(x[1], SumSeq(Tail(x)))

\* NP.std of a selection, as its square (the variance); the standard
\* deviation of an empty selection is NaN (numpy warns and returns nan)
Var(x) ==
    IF Len(x) = 0 THEN NaN
    ELSE LET n == Q(Len(x), 1)
             m == CDiv(SumSeq(x), n)
         IN  CDiv(SumSeq(Arr([i \in 1..Len(x) |-> Abs2(CSub(x[i], m))])), n)

\* x[mask != 0] (inside = TRUE) and x[mask == 0] (inside = FALSE)
RECURSIVE SelectFrom(_, _, _, _)
SelectFrom(x, mask, inside, i) ==
    IF i > Len(x) THEN <<>>
    ELSE IF (mask[i] # 0) = inside
         THEN <<x[i]>> \o SelectFrom(x, mask, inside, i + 1)
         ELSE SelectFrom(x, mask, inside, i + 1)
Select(x, mask, inside) == SelectFrom(x, mask, inside, 1)

\* --------------------------------------------------------------------------
\* Discrete Fourier transforms (numpy.fft), fftshift, spectral axis
\* --------------------------------------------------------------------------
\* i^k
IPow(k) == CASE k % 4 = 0 -> <<1, 0, 1>>
             [] k % 4 = 1 -> <<0, 1, 1>>
             [] k % 4 = 2 -> <<-1, 0, 1>>
             [] k % 4 = 3 -> <<0, -1, 1>>

\* exp(2 pi i m / N), m >= 0, where it is a power of i: always for a transform
\* length N that divides 4, and for the multiples m of N/4 otherwise (the
\* other roots of unity are not Gaussian rationals and come out as NaN)
Omega(N, m) == IF (4 * m) % N = 0 THEN IPow((4 * m) \div N) ELSE NaN

\* NP.fft.ifft: x[n] = (1/N) sum_k X[k] exp(+2 pi i k n / N)
ifft(X) ==
    LET N == Len(X)
    IN  Arr([n \in 1..N |->
            CDiv(SumSeq(Arr([k \in 1..N |->
                IF X[k] = Zero THEN Zero ELSE CMul(X[k], Omega(N, (k - 1) * (n - 1)))])), Q(N, 1))])

\* NP.fft.fft: X[k] = sum_n x[n] exp(-2 pi i k n / N)
fft(x) ==
    LET N == Len(x)
    IN  Arr([k \in 1..N |->
            SumSeq(Arr([n \in 1..N |->
                IF x[n] = Zero THEN Zero ELSE CMul(x[n], Omega(N, N * N - (k - 1) * (n - 1)))]))])

\* NP.fft.fftshift: roll by N // 2;  NP.fft.ifftshift: roll by -(N // 2)
fftshift(x) ==
    LET N == Len(x)
    IN  Arr([i \in 1..N |-> x[((i - 1 + N - (N \div 2)) % N) + 1]])
ifftshift(x) ==
    LET N == Len(x)
    IN  Arr([i \in 1..N |-> x[((i - 1 + (N \div 2)) % N) + 1]])

\* NP.fft.fftfreq(N, d = delx): 0, 1, ..., then the negative frequencies
fftfreq(N, delx) ==
    Arr([i \in 1..N |->
        IF i - 1 < (N + 1) \div 2
        THEN CDiv(Q(i - 1, 1), CMul(Q(N, 1), delx))
        ELSE CDiv(Q(i - 1 - N, 1), CMul(Q(N, 1), delx))])

\* DSP.spectral_axis(length, delx, use_real=False, shift)
spectral_axis(N, delx, shift) ==
    IF shift THEN fftshift(fftfreq(N, delx)) ELSE fftfreq(N, delx)

\* DSP.FT1D(inp, inverse, shift) of one spectrum
FT1D(x, inverse, shift) ==
    LET y == IF inverse THEN ifft(x) ELSE fft(x)
    IN  IF shift THEN fftshift(y) ELSE y

\* NP.pad(x, (0, npad), mode='constant') along the transformed axis
PadZeros(x, npad) == x \o Zeros(npad)

\* DSP.downsampler(x, factor): the samples at positions 0, factor, 2*factor,
\* ... below Len(x), linearly interpolated between bins where the position is
\* not a whole bin (factor is a real >= 1)
Ceil(x) == (x[1] + x[3] - 1) \div x[3]
downsampler(x, factor) ==
    Arr([i \in 1..Ceil(CDiv(Q(Len(x), 1), factor)) |->
        LET pos == CMul(Q(i - 1, 1), factor)
            j   == Floor(pos)
            t   == CSub(pos, Q(j, 1))
        IN  IF t = Zero THEN x[j + 1]
            ELSE IF j + 2 > Len(x) THEN NaN
            ELSE CAdd(CMul(x[j + 1], CSub(One, t)), CMul(x[j + 2], t))])

\* --------------------------------------------------------------------------
\* AP.deconv.clean (aipy): one CLEAN pass of a spectrum against a kernel,
\* restricted to the bins where area != 0.  The pass works on a copy of im
\* and returns the model components and info['res'].  A pass is modelled as
\* one matching-pursuit component: the peak of |im| inside the area is
\* removed with the kernel normalised by its own in-area peak; a step that
\* raises the total residual power is undone (divergence).  A kernel with no
\* usable peak in the area (q = 1/0) makes every residual non-finite.
\* --------------------------------------------------------------------------
RECURSIVE ArgMaxFrom(_, _, _, _, _)
\* first index in area order with the strictly largest |x|^2 (best so far: at idx)
ArgMaxFrom(x, area, i, best, idx) ==
    IF i > Len(x) THEN idx
    ELSE IF area[i] # 0 /\ RGt(Abs2(x[i]), best)
         THEN ArgMaxFrom(x, area, i + 1, Abs2(x[i]), i)
         ELSE ArgMaxFrom(x, area, i + 1, best, idx)

Power(x) == SumSeq(Arr([i \in 1..Len(x) |-> Abs2(x[i])]))

deconv_clean(im, ker, area, stop_if_div, pos_def) ==
    LET N  == Len(im)
        kp == ArgMaxFrom(ker, area, 1, Zero, 0)
        q  == IF kp = 0 THEN NaN ELSE CDiv(One, ker[kp])
        p  == ArgMaxFrom(im, area, 1, Q(-1, 1), 1)
        step == CMul(im[p], q)
        res  == Arr([n \in 1..N |-> CSub(im[n], CMul(ker[((n - p + N) % N) + 1], step))])
        mdl  == Arr([n \in 1..N |-> IF n = p THEN step ELSE Zero])
        diverged == RGt(Power(res), Power(im))
    IN  IF diverged
        THEN [mdl |-> Zeros(N), res |-> im, term |-> "divergence",
              stop_if_div |-> stop_if_div, pos_def |-> pos_def]
        ELSE [mdl |-> mdl, res |-> res, term |-> "tol",
              stop_if_div |-> stop_if_div, pos_def |-> pos_def]

\* --------------------------------------------------------------------------
\* _gentle_clean(dd, _w, tol, area, stop_if_div, maxiter, verbose, autoscale)
\* The frame of one call: the local names and the two caller arrays the
\* function changes in place.  dd is a numpy view of the caller's spectrum
\* until line 88 rebinds the name to info['res'] (dd_is = "res").
\* --------------------------------------------------------------------------
MaxCycle == 1000

\* NP.nanmax(NP.abs(_w)): NaN entries are skipped
RECURSIVE NanMaxAbs2(_)
NanMaxAbs2(w) ==
    IF Len(w) = 0 THEN NaN
    ELSE LET r == NanMaxAbs2(Tail(w))
             a == Abs2(w[1])
         IN  IF IsNaN(a) THEN r
             ELSE IF IsNaN(r) \/ RGt(a, r) THEN a ELSE r

\* lines 62-81: scaling in place, the first pass, the loop set-up
gc_enter(dd, w, area, stop_if_div, maxiter) ==
    LET scale_factor == RSqrt(NanMaxAbs2(w))
        dd1   == VDivBy(dd, scale_factor)
        w1    == VDivBy(w, scale_factor)
        first == deconv_clean(dd1, w1, area, FALSE, FALSE)
        inside_res  == Var(Select(dd1, area, TRUE))
        outside_res == Var(Select(dd1, area, FALSE))
    IN  [arg_dd |-> dd1, dd_is |-> "arg", w |-> w1, area |-> area,
         stop_if_div |-> stop_if_div, maxiter |-> maxiter,
         scale_factor |-> scale_factor,
         cc |-> Zeros(Len(dd)), info |-> first,
         initial_res |-> inside_res,
         inside_res |-> CMul(Q(4, 1), outside_res),
         outside_res |-> outside_res,
         ncycle |-> 0, broke |-> FALSE]

\* the array the name dd is bound to
gc_dd(g) == IF g.dd_is = "arg" THEN g.arg_dd ELSE g.info.res

\* line 82 (and the break of line 92)
gc_cond(g) == ~g.broke /\ RGt(g.inside_res, g.outside_res) /\ g.maxiter > 0

\* lines 83-92: one cycle of the main loop
gc_pass(g) ==
    LET r == deconv_clean(gc_dd(g), g.w, g.area, g.stop_if_div, TRUE)
    IN  [g EXCEPT !.info = r,
                  !.inside_res = Var(Select(r.res, g.area, TRUE)),
                  !.outside_res = Var(Select(r.res, g.area, FALSE)),
                  !.dd_is = "res",
                  !.cc = VAdd(g.cc, r.mdl),
                  !.ncycle = g.ncycle + 1,
                  !.broke = (g.ncycle + 1 > MaxCycle)]

\* lines 94-102: un-scaling in place and the returned (cc, info)
gc_exit(g) ==
    LET s  == g.scale_factor
        s2 == CMul(s, s)
    IN  [cc |-> VScale(g.cc, s),
         res |-> IF g.dd_is = "res" THEN VScale(g.info.res, s) ELSE g.info.res,
         ncycle |-> g.ncycle - 1,
         initial_residual |-> CMul(g.initial_res, s2),
         final_residual |-> CMul(g.inside_res, s2),
         dd |-> IF g.dd_is = "arg" THEN VScale(g.arg_dd, s) ELSE g.arg_dd,
         w |-> VScale(g.w, s)]

\* --------------------------------------------------------------------------
\* The observation the objects are built from (InterferometerArray inputs)
\* --------------------------------------------------------------------------
\* channels, in units in which the channel width is 1
f == <<Q(150, 1), Q(151, 1)>>
nchan == Len(f)
df == CSub(f[2], f[1])
\* light-travel time |b|/c of each baseline, in units of 1/df
baseline_delay == <<Q(1, 4), Q(1, 2)>>
nbl == Len(baseline_delay)
\* one entry per timestamp
lst == <<Q(0, 1), Q(15, 1)>>
n_acc == Len(lst)

\* bounds of the model
MaxOps == 2
MaxDim == 3

\* cubes are indexed [baseline][channel or lag][snapshot]
Cube(F(_, _, _), n) == Arr([b \in 1..nbl |-> Arr([i \in 1..n |-> Arr([s \in 1..n_acc |-> F(b, i, s)])])])
Col(cube, b, s) == Arr([i \in 1..Len(cube[b]) |-> cube[b][i][s]])
\* apply T to the spectrum of every (baseline, snapshot)
AlongAxis1(T(_), cube) ==
    Arr([b \in 1..nbl |->
        LET cols == Arr([s \in 1..n_acc |-> T(Col(cube, b, s))])
        IN  Arr([i \in 1..Len(cols[1]) |-> Arr([s \in 1..n_acc |-> cols[s][i]])])])
CubeMap2(Op(_, _), x, y) ==
    Arr([b \in 1..nbl |-> Arr([i \in 1..Len(x[b]) |-> Arr([s \in 1..n_acc |-> Op(x[b][i][s], y[b][i][s])])])])
CubeMul(x, y) == CubeMap2(CMul, x, y)
CubeAdd(x, y) == CubeMap2(CAdd, x, y)
CubeScale(x, c) == Arr([b \in 1..nbl |-> Arr([i \in 1..Len(x[b]) |-> Arr([s \in 1..n_acc |-> CMul(x[b][i][s], c)])])])
\* cube with the spectrum of (b, s) replaced
SetCol(cube, b, s, col) ==
    [cube EXCEPT ![b] = Arr([i \in 1..Len(cube[b]) |-> [cube[b][i] EXCEPT ![s] = col[i]]])]
\* None
None == <<>>

\* --------------------------------------------------------------------------
\* freq_wts broadcasting, delay_transform lines 465-476 (the same code is in
\* InterferometerArray.delay_transform lines 3850-3861).  An array argument is
\* [isNone, shape, data] with data in C order.
\* --------------------------------------------------------------------------
NoWts == [isNone |-> TRUE, shape |-> <<>>, data |-> <<>>]
Wts(shape, data) == [isNone |-> FALSE, shape |-> shape, data |-> data]

broadcast_wts(w, n_bl, n_ch, n_snap) ==
    LET size == Len(w.data)
    IN  IF size = n_ch
        THEN [ok |-> TRUE,
              wts |-> Arr([b \in 1..n_bl |-> Arr([c \in 1..n_ch |-> Arr([s \in 1..n_snap |-> w.data[c]])])])]
        ELSE IF size = n_ch * n_snap
        THEN [ok |-> TRUE,
              wts |-> Arr([b \in 1..n_bl |-> Arr([c \in 1..n_ch |-> Arr([s \in 1..n_snap |->
                          w.data[(c - 1) * n_snap + s]])])])]
        ELSE IF size = n_ch * n_bl
        THEN [ok |-> TRUE,
              wts |-> Arr([b \in 1..n_bl |-> Arr([c \in 1..n_ch |-> Arr([s \in 1..n_snap |->
                          w.data[(b - 1) * n_ch + c]])])])]
        ELSE IF size = n_ch * n_bl * n_snap
        THEN [ok |-> TRUE,
              wts |-> Arr([b \in 1..n_bl |-> Arr([c \in 1..n_ch |-> Arr([s \in 1..n_snap |->
                          w.data[((b - 1) * n_ch + (c - 1)) * n_snap + s]])])])]
        ELSE [ok |-> FALSE, wts |-> None]

\* --------------------------------------------------------------------------
\* Horizon delay limits
\* --------------------------------------------------------------------------
\* DLY.horizon_delay_limits(baselines, pc_dircos): [snapshot][baseline] ->
\* <<min, max>> = centre -/+ |b|/c, the centre being |b|/c times the direction
\* cosine of the phase centre along the baseline
horizon_delay_limits(pc_dircos) ==
    Arr([s \in 1..n_acc |-> Arr([b \in 1..nbl |->
        LET h == baseline_delay[b]
            c == CMul(h, pc_dircos[s])
        IN  <<CSub(c, h), CAdd(c, h)>>])])

\* phase_center_coords=None
NoTag == "None"

\* (a variant that takes 'radec' for a coordinate system it can convert)
ghdl_accepting_radec(a, phase_center, phase_center_coords) ==
    LET center == IF phase_center = None THEN a.phase_center ELSE phase_center
        coords == IF phase_center = None THEN a.phase_center_coords ELSE phase_center_coords
    IN  IF coords \notin {"hadec", "altaz", "dircos", "radec"}
        THEN [err |-> "ValueError", envelope |-> None]
        ELSE [err |-> "none", envelope |-> horizon_delay_limits(center)]

\* DelaySpectrum.get_horizon_delay_limits(phase_center, phase_center_coords),
\* lines 666-686: without a phase centre both the centre and its tag are
\* those of the visibility object; the conversions to direction cosines
\* (GEOM) keep the direction.
ghdl(a, phase_center, phase_center_coords) ==
    LET center == IF phase_center = None THEN a.phase_center ELSE phase_center
        coords == IF phase_center = None THEN a.phase_center_coords ELSE phase_center_coords
    IN  IF coords \notin {"hadec", "altaz", "dircos"}
        THEN [err |-> "ValueError", envelope |-> None]
        ELSE [err |-> "none", envelope |-> horizon_delay_limits(center)]

\* DelaySpectrum.get_horizon_delay_limits() with the default arguments
get_horizon_delay_limits(a) == ghdl(a, None, NoTag)

\* --------------------------------------------------------------------------
\* Arguments: pad is [scalar, v], downsample is [isbool, v]
\* --------------------------------------------------------------------------
Pad(v) == [scalar |-> TRUE, v |-> v]
Flag(v) == [isbool |-> TRUE, v |-> v]

\* int(self.f.size * pad), lines 495 and 568
npad_of(n, pad) == Floor(CMul(Q(n, 1), pad))
NPad(pad) == npad_of(nchan, pad)

\* int(self.f.size*(1+pad)), the length of the lag axis of line 486
nlags_of(n, pad) == Floor(CMul(Q(n, 1), CAdd(One, pad)))

\* the padded, scaled inverse transform of lines 488-499 / 573-575
lag_transform(cube, npad, shift) ==
    LET T(x) == VScale(FT1D(PadZeros(x, npad), TRUE, shift), CMul(Q(npad + nchan, 1), df))
    IN  AlongAxis1(T, cube)

\* --------------------------------------------------------------------------
\* DelaySpectrum.delay_transform(pad, freq_wts, downsample), lines 458-514
\* --------------------------------------------------------------------------
\* a reset of a negative pad to the default 1.0 of the signature
clamp_pad_default(pad) == IF RLt(pad, Zero) THEN One ELSE pad
\* lines 460-461 (and 554-555 of clean): a negative pad is reset to 0.0
clamp_pad(pad) == IF RLt(pad, Zero) THEN Zero ELSE pad

\* an assignment of bp_wts made before the size of freq_wts is looked at
assign_freq_wts_early(d, freq_wts) ==
    IF freq_wts.isNone THEN [err |-> "none", ds |-> d]
    ELSE LET bw == broadcast_wts(freq_wts, nbl, nchan, n_acc)
         IN  IF bw.ok THEN [err |-> "none", ds |-> [d EXCEPT !.bp_wts = bw.wts]]
             ELSE [err |-> "ValueError", ds |-> [d EXCEPT !.bp_wts = freq_wts.data]]
\* lines 465-476: the weights are broadcast, or the call raises; bp_wts is
\* assigned (line 476) only after that
assign_freq_wts(d, freq_wts) ==
    IF freq_wts.isNone THEN [err |-> "none", ds |-> d]
    ELSE LET bw == broadcast_wts(freq_wts, nbl, nchan, n_acc)
         IN  IF bw.ok THEN [err |-> "none", ds |-> [d EXCEPT !.bp_wts = bw.wts]]
             ELSE [err |-> "ValueError", ds |-> d]

ds_delay_transform(d, a, pad, freq_wts, downsample) ==
    IF ~pad.scalar THEN [err |-> "TypeError", ds |-> d]
    ELSE
    LET p  == clamp_pad(pad.v)
        aw == assign_freq_wts(d, freq_wts)
        d1 == aw.ds
    IN  IF aw.err # "none" THEN aw
        ELSE IF ~downsample.isbool THEN [err |-> "TypeError", ds |-> d1]
        ELSE
        LET npad == IF p = Zero THEN 0 ELSE NPad(p)
            w    == CubeMul(d1.bp, d1.bp_wts)
            fac  == CAdd(One, p)
            D(x) == IF downsample.v THEN downsampler(x, fac) ELSE x
            full == spectral_axis(nlags_of(nchan, p), df, TRUE)
            X(cube) == AlongAxis1(D, lag_transform(CubeMul(cube, w), npad, TRUE))
        IN  [err |-> "none",
             ds |-> [d1 EXCEPT !.lags = D(full),
                               !.vis_lag = X(a.vis_freq),
                               !.skyvis_lag = X(a.skyvis_freq),
                               !.vis_noise_lag = X(a.vis_noise_freq),
                               !.lag_kernel = AlongAxis1(D, lag_transform(w, npad, TRUE)),
                               !.pad = p]]

\* --------------------------------------------------------------------------
\* InterferometerArray.delay_transform(pad, freq_wts), lines 3842-3891
\* --------------------------------------------------------------------------
ia_delay_transform(a, pad, freq_wts) ==
    IF ~pad.scalar THEN [err |-> "TypeError", ia |-> a]
    ELSE
    LET p  == IF RLt(pad.v, Zero) THEN Zero ELSE pad.v
        bw == IF freq_wts.isNone THEN [ok |-> TRUE, wts |-> a.bp_wts]
              ELSE broadcast_wts(freq_wts, nbl, nchan, n_acc)
    IN  IF ~bw.ok THEN [err |-> "ValueError", ia |-> a]
        ELSE
        LET npad == IF p = Zero THEN 0 ELSE NPad(p)
            w    == CubeMul(a.bp, bw.wts)
            fac  == CAdd(One, p)
            D(x) == IF p = Zero THEN x ELSE downsampler(x, fac)
            X(cube) == AlongAxis1(D, lag_transform(CubeMul(cube, w), npad, TRUE))
        IN  [err |-> "none",
             ia |-> [a EXCEPT !.bp_wts = bw.wts,
                              !.lags = spectral_axis(nchan, df, TRUE),
                              !.vis_lag = X(a.vis_freq),
                              !.skyvis_lag = X(a.skyvis_freq),
                              !.vis_noise_lag = X(a.vis_noise_freq),
                              !.lag_kernel = AlongAxis1(D, lag_transform(w, npad, TRUE))]]

\* --------------------------------------------------------------------------
\* InterferometerArray.phase_centering(phase_center, phase_center_coords),
\* lines 3593-3713.  A phase centre is given by its direction cosine along
\* the baselines, one per timestamp; the coordinate conversions (GEOM) keep
\* the direction and change the coordinate tag.
\* --------------------------------------------------------------------------
\* the tag the new phase centre ends with (lines 3611-3690), or the error
converted_coords(new, cur, pointing_coords) ==
    CASE new = "dircos" ->
            IF cur \in {"dircos", "altaz", "hadec", "radec"} THEN cur ELSE "ValueError"
      [] new = "altaz" ->
            IF cur \in {"altaz", "hadec", "radec"} THEN cur ELSE "ValueError"
      [] new = "hadec" ->
            IF cur = "hadec" THEN "hadec"
            ELSE IF pointing_coords = "radec" THEN "radec"
            ELSE IF cur \in {"altaz", "dircos"} THEN cur ELSE "ValueError"
      [] new = "radec" ->
            IF cur \in {"radec", "hadec", "altaz", "dircos"} THEN cur ELSE "ValueError"
      [] OTHER -> "ValueError"

\* exp(-2 pi i * b_dot_l * f / c) for baseline b, channel c, snapshot s
rotation(a, pcnew, b, c, s) ==
    LET turns == CMul(CMul(baseline_delay[b], CSub(a.phase_center[s], pcnew[s])), f[c])
        k     == Floor(CMul(Q(4, 1), turns))
    IN  IPow(-k)

ia_phase_centering(a, pcnew, coords) ==
    LET tag == converted_coords(coords, a.phase_center_coords, a.pointing_coords)
    IN  IF tag = "ValueError" THEN [err |-> "ValueError", ia |-> a]
        ELSE
        LET R(cube) == Cube(LAMBDA b, c, s : CMul(cube[b][c][s], rotation(a, pcnew, b, c, s)), nchan)
            a1 == [a EXCEPT !.phase_center = pcnew,
                            !.phase_center_coords = tag,
                            !.vis_freq = R(a.vis_freq),
                            !.skyvis_freq = R(a.skyvis_freq),
                            !.vis_noise_freq = R(a.vis_noise_freq)]
        IN  ia_delay_transform(a1, Pad(One), NoWts)

\* --------------------------------------------------------------------------
\* DelaySpectrum.clean(pad, freq_wts, clean_window_buffer), lines 552-628
\* --------------------------------------------------------------------------
\* line 587: the bins of the window are set to 1 in clean_area
window_update(clean_area, lags, limits, clean_window_buffer, bw) ==
    LET ext == CDiv(clean_window_buffer, bw)
    IN  Arr([i \in 1..Len(lags) |->
            IF RLe(lags[i], CAdd(limits[2], ext)) /\ RGe(lags[i], CSub(limits[1], ext))
            THEN 1 ELSE clean_area[i]])

\* lines 552-581: the locals of clean() before the double loop
clean_begin(d, a, pad, clean_window_buffer) ==
    LET p    == clamp_pad(pad.v)
        npad == NPad(p)
        sky  == lag_transform(CubeMul(CubeMul(a.skyvis_freq, d.bp), d.bp_wts), npad, FALSE)
        vis  == lag_transform(CubeMul(CubeMul(a.vis_freq, d.bp), d.bp_wts), npad, FALSE)
        zc   == Cube(LAMBDA b, i, s : Zero, nchan + npad)
    IN  [bw |-> CMul(df, Q(nchan, 1)),
         lags |-> spectral_axis(nchan + npad, df, FALSE),
         clean_area |-> Arr([i \in 1..(nchan + npad) |-> 0]),
         skyvis_lag |-> sky,
         vis_lag |-> vis,
         lag_kernel |-> lag_transform(d.bp, npad, FALSE),
         ccomponents_noiseless |-> zc, ccres_noiseless |-> zc,
         ccomponents_noisy |-> zc, ccres_noisy |-> zc,
         clean_window_buffer |-> clean_window_buffer,
         snap_iter |-> 1, bl_iter |-> 1, stage |-> "sky"]

\* a net product that leaves the residuals out
net_product_cc_only(cc, res) == cc
\* lines 616-617 and 625-626: a net product is components plus residuals
net_product(cc, res) == CubeAdd(cc, res)

\* a variant of the end of clean() that records the pad of the CLEAN
\* transform in self.pad
clean_end_recording_pad(d, c) ==
    [d EXCEPT !.skyvis_lag = AlongAxis1(fftshift, c.skyvis_lag),
              !.vis_lag = AlongAxis1(fftshift, c.vis_lag),
              !.lag_kernel = AlongAxis1(fftshift, c.lag_kernel),
              !.lags = fftshift(c.lags),
              !.pad = CDiv(Q(Len(c.lags) - nchan, 1), Q(nchan, 1)),
              !.clean_window_buffer = c.clean_window_buffer]

\* lines 601-628: the products stored after the double loop
clean_end(d, c) ==
    LET deta == CSub(c.lags[2], c.lags[1])
        F(cube) == CubeScale(AlongAxis1(fft, cube), deta)
        S(cube) == AlongAxis1(fftshift, cube)
        cc_skyvis     == F(c.ccomponents_noiseless)
        cc_skyvis_res == F(c.ccres_noiseless)
        cc_vis        == F(c.ccomponents_noisy)
        cc_vis_res    == F(c.ccres_noisy)
    IN  [d EXCEPT !.skyvis_lag = S(c.skyvis_lag),
                  !.vis_lag = S(c.vis_lag),
                  !.lag_kernel = S(c.lag_kernel),
                  !.cc_skyvis_lag = S(c.ccomponents_noiseless),
                  !.cc_skyvis_res_lag = S(c.ccres_noiseless),
                  !.cc_vis_lag = S(c.ccomponents_noisy),
                  !.cc_vis_res_lag = S(c.ccres_noisy),
                  !.cc_skyvis_net_lag = net_product(S(c.ccomponents_noiseless), S(c.ccres_noiseless)),
                  !.cc_vis_net_lag = net_product(S(c.ccomponents_noisy), S(c.ccres_noisy)),
                  !.lags = fftshift(c.lags),
                  !.cc_skyvis_freq = cc_skyvis,
                  !.cc_skyvis_res_freq = cc_skyvis_res,
                  !.cc_vis_freq = cc_vis,
                  !.cc_vis_res_freq = cc_vis_res,
                  !.cc_skyvis_net_freq = net_product(cc_skyvis, cc_skyvis_res),
                  !.cc_vis_net_freq = net_product(cc_vis, cc_vis_res),
                  !.clean_window_buffer = c.clean_window_buffer]

\* --------------------------------------------------------------------------
\* State
\* --------------------------------------------------------------------------
VARIABLES
    ia,     \* the InterferometerArray instance
    ds,     \* the DelaySpectrum instance built from it
    pc,     \* position: "idle", "clean" (in the double loop), "gc" (in _gentle_clean), "done"
    cl,     \* locals of the running clean()
    gc,     \* frame of the running _gentle_clean(): [ret, g]
    gcres,  \* what the last direct call of _gentle_clean returned
    err,    \* exception raised by the last call ("none" if it returned)
    last,   \* the last top-level call and its arguments
    nops,   \* number of top-level calls made
    bc,     \* freq_wts broadcasting on its own: [n_bl, n_ch, n_snap, w, out]
    np,     \* the padding lengths on their own: [nchan, pad, npad, nlags, applied]
    itf,    \* an Interferometer instance (one baseline)
    nse,    \* what the last band_averaged_noise_estimate() did and returned
    hl      \* the last get_horizon_delay_limits() call: its arguments and what it returned

vars == <<ia, ds, pc, cl, gc, gcres, err, last, nops, bc, np, itf, nse, hl>>

\* the visibilities of the observation: amplitude a of the sky, n of the noise
sky_cube(a) == Cube(LAMBDA b, c, s : Norm(a + b - 1, (c - 1) * s, 1), nchan)
noise_cube(n) == Cube(LAMBDA b, c, s : Norm(n * (s - 1), n * (2 - c), 1), nchan)
\* bandpass: flat, or flat with baseline dead_bl switched off (0 = none)
bp_cube(dead_bl) == Cube(LAMBDA b, c, s : IF b = dead_bl THEN Zero ELSE One, nchan)

InterferometerArray(a, n, dead_bl, pc0, coords) ==
    [phase_center |-> pc0,
     phase_center_coords |-> coords,
     pointing_coords |-> coords,
     skyvis_freq |-> sky_cube(a),
     vis_noise_freq |-> noise_cube(n),
     vis_freq |-> CubeAdd(sky_cube(a), noise_cube(n)),
     bp |-> bp_cube(dead_bl),
     bp_wts |-> Cube(LAMBDA b, c, s : One, nchan),
     lags |-> None, vis_lag |-> None, skyvis_lag |-> None,
     vis_noise_lag |-> None, lag_kernel |-> None]

\* DelaySpectrum.__init__, lines 363-409
DelaySpectrum(a) ==
    [horizon_delay_limits |-> get_horizon_delay_limits(a).envelope,
     bp |-> a.bp, bp_wts |-> a.bp_wts,
     pad |-> Zero, lags |-> None, lag_kernel |-> None,
     skyvis_lag |-> None, vis_lag |-> None, vis_noise_lag |-> None,
     clean_window_buffer |-> One,
     cc_skyvis_lag |-> None, cc_skyvis_res_lag |-> None,
     cc_vis_lag |-> None, cc_vis_res_lag |-> None,
     cc_skyvis_net_lag |-> None, cc_vis_net_lag |-> None,
     cc_skyvis_freq |-> None, cc_skyvis_res_freq |-> None,
     cc_vis_freq |-> None, cc_vis_res_freq |-> None,
     cc_skyvis_net_freq |-> None, cc_vis_net_freq |-> None]

NoCall == [op |-> "none", pad |-> Pad(Zero), wts |-> NoWts, down |-> Flag(TRUE), cwb |-> Zero]
NoBC == [n_bl |-> 0, n_ch |-> 0, n_snap |-> 0, layout |-> "none", w |-> NoWts, out |-> None,
         applied |-> FALSE]

\* phase centres of the observation: zenith throughout, or the horizon
\* along the baselines throughout
PC0 == { <<Zero, Zero>>, <<One, One>> }

Init ==
    /\ \E dead_bl \in {0, 2}, pc0 \in PC0 :
          /\ ia = InterferometerArray(1, 1, dead_bl, pc0, "hadec")
          /\ ds = DelaySpectrum(InterferometerArray(1, 1, dead_bl, pc0, "hadec"))
    /\ pc = "idle"
    /\ cl = None
    /\ gc = None
    /\ gcres = None
    /\ err = "none"
    /\ last = NoCall
    /\ nops = 0
    /\ bc = NoBC
    /\ np = None /\ itf = None /\ nse = None /\ hl = None

\* --------------------------------------------------------------------------
\* Calls
\* --------------------------------------------------------------------------
DefaultMaxIter == 100

Vec(n) == Arr([i \in 1..n |-> Q(i, 1)])
\* (pad, freq_wts, downsample) of the delay_transform() calls made
DTArgs ==
    { <<Pad(Q(-1, 2)), NoWts, Flag(TRUE)>>,
      <<Pad(One), NoWts, Flag(TRUE)>>,
      <<Pad(One), NoWts, Flag(FALSE)>>,
      <<Pad(Zero), Wts(<<nchan>>, Vec(nchan)), Flag(TRUE)>>,
      <<Pad(Q(-1, 2)), Wts(<<nbl, nchan>>, Vec(nbl * nchan)), Flag(FALSE)>>,
      <<Pad(One), Wts(<<nchan + 1>>, Vec(nchan + 1)), Flag(TRUE)>> }
\* (pad, freq_wts, clean_window_buffer) of the clean() calls made
CleanArgs ==
    { <<Pad(Q(-1, 2)), NoWts, Zero>>, <<Pad(Zero), Wts(<<nchan>>, Vec(nchan)), One>>,
      <<Pad(One), NoWts, Zero>> }
\* (phase_center, phase_center_coords) of the phase_centering() calls made
PCArgs ==
    { <<Arr([s \in 1..n_acc |-> One]), "hadec">>,
      <<Arr([s \in 1..n_acc |-> Q(s - 1, 1)]), "altaz">>,
      <<Arr([s \in 1..n_acc |-> One]), "galactic">> }
IADTArgs ==
    { <<Pad(Zero), Wts(<<nchan>>, Vec(nchan))>>,
      <<Pad(Zero), Wts(<<nchan + 1>>, Vec(nchan + 1))>> }

Call(op, pad, wts) == [NoCall EXCEPT !.op = op, !.pad = pad, !.wts = wts]

\* DelaySpectrum.delay_transform(pad, freq_wts, downsample)
DelayTransform(pad, wts, down) ==
    /\ pc = "idle" /\ nops < MaxOps
    /\ LET r == ds_delay_transform(ds, ia, pad, wts, down)
       IN  ds' = r.ds /\ err' = r.err
    /\ last' = [Call("delay_transform", pad, wts) EXCEPT !.down = down]
    /\ nops' = nops + 1
    /\ UNCHANGED <<ia, pc, cl, gc, gcres, bc, np, itf, nse, hl>>

\* InterferometerArray.delay_transform(pad, freq_wts)
IADelayTransform(pad, wts) ==
    /\ pc = "idle" /\ nops < MaxOps
    /\ LET r == ia_delay_transform(ia, pad, wts)
       IN  ia' = r.ia /\ err' = r.err
    /\ last' = Call("ia.delay_transform", pad, wts)
    /\ nops' = nops + 1
    /\ UNCHANGED <<ds, pc, cl, gc, gcres, bc, np, itf, nse, hl>>

\* InterferometerArray.phase_centering(phase_center, phase_center_coords)
PhaseCentering(pcnew, coords) ==
    /\ pc = "idle" /\ nops < MaxOps
    /\ LET r == ia_phase_centering(ia, pcnew, coords)
       IN  ia' = r.ia /\ err' = r.err
    /\ last' = Call("phase_centering", Pad(Zero), NoWts)
    /\ nops' = nops + 1
    /\ UNCHANGED <<ds, pc, cl, gc, gcres, bc, np, itf, nse, hl>>

\* DelaySpectrum.set_horizon_delay_limits(), line 700
SetHorizonDelayLimits ==
    /\ pc = "idle" /\ nops < MaxOps
    /\ LET r == get_horizon_delay_limits(ia)
       IN  /\ err' = r.err
           /\ ds' = IF r.err = "none" THEN [ds EXCEPT !.horizon_delay_limits = r.envelope] ELSE ds
    /\ last' = Call("set_horizon_delay_limits", Pad(Zero), NoWts)
    /\ nops' = nops + 1
    /\ UNCHANGED <<ia, pc, cl, gc, gcres, bc, np, itf, nse, hl>>

\* lines 587-590: the window of unit (bl_iter, snap_iter) is marked in
\* clean_area and _gentle_clean is entered on the sky spectrum
enter_unit(c, d) ==
    LET area == window_update(c.clean_area, c.lags,
                              d.horizon_delay_limits[c.snap_iter][c.bl_iter],
                              c.clean_window_buffer, c.bw)
    IN  [cl |-> [c EXCEPT !.clean_area = area, !.stage = "sky"],
         gc |-> [ret |-> "sky",
                 g |-> gc_enter(Col(c.skyvis_lag, c.bl_iter, c.snap_iter),
                                Col(c.lag_kernel, c.bl_iter, c.snap_iter),
                                area, FALSE, DefaultMaxIter)]]

\* clean(pad, freq_wts, clean_window_buffer) up to the first _gentle_clean
CleanBegin(pad, wts, cwb) ==
    /\ pc = "idle" /\ nops < MaxOps
    /\ last' = [Call("clean", pad, wts) EXCEPT !.cwb = cwb]
    /\ nops' = nops + 1
    /\ IF ~pad.scalar
       THEN err' = "TypeError" /\ UNCHANGED <<pc, cl, gc>>
       ELSE LET e == enter_unit(clean_begin(ds, ia, pad, cwb), ds)
            IN  cl' = e.cl /\ gc' = e.gc /\ pc' = "gc" /\ err' = "none"
    /\ UNCHANGED <<ia, ds, gcres, bc, np, itf, nse, hl>>

\* one cycle of the main loop of the running _gentle_clean
GCPass ==
    /\ pc = "gc" /\ gc_cond(gc.g)
    /\ gc' = [gc EXCEPT !.g = gc_pass(gc.g)]
    /\ UNCHANGED <<ia, ds, pc, cl, gcres, err, last, nops, bc, np, itf, nse, hl>>

\* lines 591-594: the sky call returns, the observed call is entered
store_sky(c, r) ==
    [c EXCEPT !.ccomponents_noiseless = SetCol(@, c.bl_iter, c.snap_iter, r.cc),
              !.ccres_noiseless = SetCol(@, c.bl_iter, c.snap_iter, r.res),
              !.skyvis_lag = SetCol(@, c.bl_iter, c.snap_iter, r.dd),
              !.lag_kernel = SetCol(@, c.bl_iter, c.snap_iter, r.w),
              !.stage = "obs"]
GCReturnSky ==
    /\ pc = "gc" /\ ~gc_cond(gc.g) /\ gc.ret = "sky"
    /\ LET c == store_sky(cl, gc_exit(gc.g))
       IN  /\ cl' = c
           /\ gc' = [ret |-> "obs",
                     g |-> gc_enter(Col(c.vis_lag, c.bl_iter, c.snap_iter),
                                    Col(c.lag_kernel, c.bl_iter, c.snap_iter),
                                    c.clean_area, FALSE, DefaultMaxIter)]
    /\ UNCHANGED <<ia, ds, pc, gcres, err, last, nops, bc, np, itf, nse, hl>>

\* (a variant in which a unit whose residual is not finite spoils the whole
\* residual cube, not only its own column)
store_obs_spill(c, r) ==
    [c EXCEPT !.ccomponents_noisy = SetCol(@, c.bl_iter, c.snap_iter, r.cc),
              !.ccres_noisy = IF \E i \in 1..Len(r.res) : IsNaN(r.res[i])
                              THEN Cube(LAMBDA b, i, t : NaN, Len(r.res))
                              ELSE SetCol(@, c.bl_iter, c.snap_iter, r.res),
              !.vis_lag = SetCol(@, c.bl_iter, c.snap_iter, r.dd),
              !.lag_kernel = SetCol(@, c.bl_iter, c.snap_iter, r.w),
              !.snap_iter = IF c.bl_iter < nbl THEN c.snap_iter ELSE c.snap_iter + 1,
              !.bl_iter = IF c.bl_iter < nbl THEN c.bl_iter + 1 ELSE 1]

\* lines 595-598: the observed call returns, the loops advance
store_obs(c, r) ==
    [c EXCEPT !.ccomponents_noisy = SetCol(@, c.bl_iter, c.snap_iter, r.cc),
              !.ccres_noisy = SetCol(@, c.bl_iter, c.snap_iter, r.res),
              !.vis_lag = SetCol(@, c.bl_iter, c.snap_iter, r.dd),
              !.lag_kernel = SetCol(@, c.bl_iter, c.snap_iter, r.w),
              !.snap_iter = IF c.bl_iter < nbl THEN c.snap_iter ELSE c.snap_iter + 1,
              !.bl_iter = IF c.bl_iter < nbl THEN c.bl_iter + 1 ELSE 1]
last_unit(c) == c.bl_iter = nbl /\ c.snap_iter = n_acc
GCReturnObs ==
    /\ pc = "gc" /\ ~gc_cond(gc.g) /\ gc.ret = "obs" /\ ~last_unit(cl)
    /\ LET e == enter_unit(store_obs(cl, gc_exit(gc.g)), ds)
       IN  cl' = e.cl /\ gc' = e.gc
    /\ UNCHANGED <<ia, ds, pc, gcres, err, last, nops, bc, np, itf, nse, hl>>

\* the last unit returns: lines 601-628, clean() is done
CleanEnd ==
    /\ pc = "gc" /\ ~gc_cond(gc.g) /\ gc.ret = "obs" /\ last_unit(cl)
    /\ ds' = clean_end(ds, store_obs(cl, gc_exit(gc.g)))
    /\ pc' = "idle" /\ cl' = None /\ gc' = None
    /\ UNCHANGED <<ia, gcres, err, last, nops, bc, np, itf, nse, hl>>

Next ==
    \/ \E a \in DTArgs : DelayTransform(a[1], a[2], a[3])
    \/ \E a \in IADTArgs : IADelayTransform(a[1], a[2])
    \/ \E a \in PCArgs : PhaseCentering(a[1], a[2])
    \/ SetHorizonDelayLimits
    \/ \E a \in CleanArgs : CleanBegin(a[1], a[2], a[3])
    \/ GCPass
    \/ GCReturnSky
    \/ GCReturnObs
    \/ CleanEnd

Spec == Init /\ [][Next]_vars

\* --------------------------------------------------------------------------
\* _gentle_clean called on its own
\* --------------------------------------------------------------------------
\* the whole call, lines 62-102
RECURSIVE gc_loop(_)
gc_loop(g) == IF gc_cond(g) THEN gc_loop(gc_pass(g)) ELSE g
gentle_clean(dd, w, area, stop_if_div, maxiter) ==
    gc_exit(gc_loop(gc_enter(dd, w, area, stop_if_div, maxiter)))

Real(v) == Arr([i \in 1..Len(v) |-> Q(v[i], 1)])
\* spectra, PSFs and masks of the direct calls
GCSpectra == { Real(<<4, 0, 1, 0>>), Real(<<1, 0, 0, 0>>), Real(<<3, 1, 2, 0>>) }
GCKernels == { Real(<<1, 0, 0, 0>>), Real(<<0, 1, 0, 0>>), Real(<<2, 1, 0, 1>>),
               Real(<<0, 0, 0, 0>>) }
GCAreas == { <<1, 1, 0, 0>>, <<1, 0, 0, 0>>, <<1, 1, 1, 1>> }

InitGC ==
    /\ ia = None /\ ds = None /\ cl = None
    /\ pc = "idle"
    /\ gc = None
    /\ gcres = None
    /\ err = "none"
    /\ last = NoCall
    /\ nops = 0
    /\ bc = NoBC
    /\ np = None /\ itf = None /\ nse = None /\ hl = None

\* _gentle_clean(dd, _w, area=area, stop_if_div=stop_if_div, maxiter=maxiter)
GCCall(dd, w, area, stop_if_div, maxiter) ==
    /\ pc = "idle" /\ gc = None
    /\ gc' = [ret |-> "direct", g |-> gc_enter(dd, w, area, stop_if_div, maxiter)]
    /\ pc' = "gc"
    /\ last' = [NoCall EXCEPT !.op = "_gentle_clean"]
    /\ nops' = nops + 1
    /\ UNCHANGED <<ia, ds, cl, gcres, err, bc, np, itf, nse, hl>>

\* line 102: return cc, info
GCReturnDirect ==
    /\ pc = "gc" /\ ~gc_cond(gc.g) /\ gc.ret = "direct"
    /\ gcres' = gc_exit(gc.g)
    /\ pc' = "done"
    /\ UNCHANGED <<ia, ds, cl, gc, err, last, nops, bc, np, itf, nse, hl>>

NextGC ==
    \/ \E dd \in GCSpectra, w \in GCKernels, area \in GCAreas,
          stop_if_div \in BOOLEAN, maxiter \in {0, DefaultMaxIter} :
          GCCall(dd, w, area, stop_if_div, maxiter)
    \/ GCPass
    \/ GCReturnDirect

SpecGC == InitGC /\ [][NextGC]_vars

\* --------------------------------------------------------------------------
\* The freq_wts broadcasting of lines 465-476 on its own, for every
\* combination of n_baselines, nchan and n_snapshots up to MaxDim
\* --------------------------------------------------------------------------
Layouts == {"nchan", "nchan x n_snapshots", "n_baselines x nchan",
            "n_baselines x nchan x n_snapshots"}
layout_shape(layout, n_bl, n_ch, n_snap) ==
    CASE layout = "nchan" -> <<n_ch>>
      [] layout = "nchan x n_snapshots" -> <<n_ch, n_snap>>
      [] layout = "n_baselines x nchan" -> <<n_bl, n_ch>>
      [] layout = "n_baselines x nchan x n_snapshots" -> <<n_bl, n_ch, n_snap>>
RECURSIVE Prod(_)
Prod(shape) == IF Len(shape) = 0 THEN 1 ELSE shape[1] * Prod(Tail(shape))

InitBC ==
    /\ ia = None /\ ds = None /\ cl = None
    /\ pc = "idle"
    /\ gc = None
    /\ gcres = None
    /\ err = "none"
    /\ last = NoCall
    /\ nops = 0
    /\ np = None /\ itf = None /\ nse = None /\ hl = None
    /\ \E n_bl \in 1..MaxDim, n_ch \in 1..MaxDim, n_snap \in 1..MaxDim, layout \in Layouts :
          LET shape == layout_shape(layout, n_bl, n_ch, n_snap)
          IN  bc = [n_bl |-> n_bl, n_ch |-> n_ch, n_snap |-> n_snap, layout |-> layout,
                    w |-> Wts(shape, Vec(Prod(shape))), out |-> None, applied |-> FALSE]

BCApply ==
    /\ ~bc.applied
    /\ bc' = [bc EXCEPT !.out = broadcast_wts(bc.w, bc.n_bl, bc.n_ch, bc.n_snap).wts,
                        !.applied = TRUE]
    /\ UNCHANGED <<ia, ds, pc, cl, gc, gcres, err, last, nops, np, itf, nse, hl>>

NextBC == BCApply

SpecBC == InitBC /\ [][NextBC]_vars

\* --------------------------------------------------------------------------
\* The padding lengths on their own: how many channels are appended and how
\* long the lag axis is, for nchan channels and padding fraction pad
\* --------------------------------------------------------------------------
MaxChan == 6
MaxPadQ == 8

\* padding fractions k/4 (the clamp of lines 460-461 has already acted)
PadFractions == { Q(k, 4) : k \in 0..MaxPadQ }

InitNP ==
    /\ ia = None /\ ds = None /\ cl = None
    /\ pc = "idle"
    /\ gc = None
    /\ gcres = None
    /\ err = "none"
    /\ last = NoCall
    /\ nops = 0
    /\ bc = NoBC
    /\ itf = None /\ nse = None /\ hl = None
    /\ \E n \in 1..MaxChan, pad \in PadFractions :
          np = [nchan |-> n, pad |-> pad, npad |-> 0, nlags |-> n, ncube |-> n,
                applied |-> FALSE]

\* lines 486 (lag axis), 495 (npad) and 497 (the padded cube) of delay_transform
PadLengths ==
    /\ ~np.applied
    /\ np' = [np EXCEPT !.npad = npad_of(np.nchan, np.pad),
                        !.nlags = nlags_of(np.nchan, np.pad),
                        !.ncube = np.nchan + npad_of(np.nchan, np.pad),
                        !.applied = TRUE]
    /\ UNCHANGED <<ia, ds, pc, cl, gc, gcres, err, last, nops, bc, itf, nse, hl>>

NextNP == PadLengths

SpecNP == InitNP /\ [][NextNP]_vars

\* --------------------------------------------------------------------------
\* Interferometer (one baseline): delay_transform() and
\* band_averaged_noise_estimate().  Its visibilities are indexed
\* [timestamp][channel or lag].
\* --------------------------------------------------------------------------
itf_nchan == 16
itf_ntime == 2

RAbs(x) == IF RLt(x, Zero) THEN CNeg(x) ELSE x
Mean(x) == IF Len(x) = 0 THEN NaN ELSE CDiv(SumSeq(x), Q(Len(x), 1))
\* NP.mean(NP.abs(x)**2); the mean of an empty selection is nan
MeanPower(x) == Mean(Arr([i \in 1..Len(x) |-> Abs2(x[i])]))
\* (a variant that takes the root of the magnitude: never nan for a finite x)
SqrtSq_of_magnitude(x) == IF IsNaN(x) THEN NaN ELSE RAbs(x)

\* NP.sqrt of a real, held by its square like NP.std above: the root of a
\* negative number is nan (numpy warns, it does not raise)
SqrtSq(x) == IF IsNaN(x) \/ RLt(x, Zero) THEN NaN ELSE x

\* the 0/1 mask lo < x < hi over an axis (strict), and lo <= x <= hi
MaskOpen(x, lo, hi) == Arr([i \in 1..Len(x) |-> IF RGt(x[i], lo) /\ RLt(x[i], hi) THEN 1 ELSE 0])
MaskClosed(x, lo, hi) == Arr([i \in 1..Len(x) |-> IF RGe(x[i], lo) /\ RLe(x[i], hi) THEN 1 ELSE 0])
MaskBelow(x, lo) == Arr([i \in 1..Len(x) |-> IF RLt(x[i], lo) THEN 1 ELSE 0])
MaskAbove(x, hi) == Arr([i \in 1..Len(x) |-> IF RGt(x[i], hi) THEN 1 ELSE 0])
MaskOr(a, b) == Arr([i \in 1..Len(a) |-> IF a[i] = 1 \/ b[i] = 1 THEN 1 ELSE 0])

\* visibilities of one timestamp: the channels 0, 4, 8 and 12 carry the
\* values v, the others are flagged (zero)
sparse_spectrum(v) ==
    Arr([c \in 1..itf_nchan |-> IF (c - 1) % 4 = 0 THEN v[((c - 1) \div 4) + 1] ELSE Zero])

\* the object after the observation: nothing transformed yet.  horizon is
\* baseline_length / c; pointing_center[t] is the direction cosine of the
\* pointing centre of timestamp t along the baseline.
Interferometer(data, pointing) ==
    [freq_resolution |-> One,
     horizon |-> Q(3, 16),
     pointing_center |-> pointing,
     vis_freq |-> Arr([t \in 1..itf_ntime |-> sparse_spectrum(data[t])]),
     bp |-> Arr([t \in 1..itf_ntime |-> Arr([c \in 1..itf_nchan |-> One])]),
     bp_wts |-> Arr([t \in 1..itf_ntime |-> Arr([c \in 1..itf_nchan |-> One])]),
     lags |-> None, vis_lag |-> None]

\* Interferometer.delay_transform(pad), freq_wts=None.  DSP.FT1D is called
\* without inverse=True here: the forward transform.
itf_delay_transform(o, pad) ==
    IF ~pad.scalar THEN [err |-> "TypeError", itf |-> o]
    ELSE
    LET p    == clamp_pad(pad.v)
        npad == npad_of(itf_nchan, p)
        w(t) == VMap2(CMul, VMap2(CMul, o.vis_freq[t], o.bp[t]), o.bp_wts[t])
        T(t) == IF p = Zero
                THEN VScale(FT1D(w(t), FALSE, TRUE), o.freq_resolution)
                ELSE downsampler(VScale(FT1D(PadZeros(w(t), npad), FALSE, TRUE),
                                        o.freq_resolution), CAdd(One, p))
    IN  [err |-> "none",
         itf |-> [o EXCEPT !.lags = spectral_axis(itf_nchan, o.freq_resolution, TRUE),
                           !.vis_lag = Arr([t \in 1..itf_ntime |-> T(t)])]]

\* lines 1239-1246: the transform the estimator makes for itself when the
\* object has none
ne_fallback(o) ==
    IF o.lags = None \/ o.vis_lag = None
    THEN IF o.vis_freq = None THEN [err |-> "NameError", itf |-> o]
         ELSE [err |-> "none",
               itf |-> [o EXCEPT
                  !.vis_lag = Arr([t \in 1..itf_ntime |->
                      VScale(FT1D(o.vis_freq[t], FALSE, FALSE), o.freq_resolution)]),
                  !.lags = spectral_axis(itf_nchan, o.freq_resolution, FALSE)]]
    ELSE [err |-> "none", itf |-> o]

\* DLY.delay_envelope(self.baseline, pointing_center_dircos): per timestamp
\* <<half-width, centre>> of the horizon delay window
delay_envelope(o) ==
    Arr([t \in 1..itf_ntime |-> <<o.horizon, CMul(o.horizon, o.pointing_center[t])>>])

\* half a delay bin: 0.5/len(self.channels)/self.freq_resolution
half_bin(o) == CDiv(Q(1, 2), CMul(Q(itf_nchan, 1), o.freq_resolution))
\* a delay bin: 1.0/(len(self.channels) * self.freq_resolution)
one_bin(o) == CDiv(One, CMul(Q(itf_nchan, 1), o.freq_resolution))

\* line 1272: the test that selects the branch that treats all timestamps
\* together
treated_together(o) ==
    \E t \in 1..itf_ntime : RGt(RAbs(delay_envelope(o)[t][2]), half_bin(o))

\* NP.polyfit(x, y, deg) evaluated at x with NP.poly1d, x non-empty: the
\* least-squares polynomial, for the degrees 0 and 1 and for every degree
\* that interpolates the points
polyfit_at(x, y, deg) ==
    IF deg >= Len(x) - 1 THEN y
    ELSE IF deg = 0 THEN Arr([i \in 1..Len(x) |-> Mean(y)])
    ELSE LET xm  == Mean(x)
             ym  == Mean(y)
             sxx == SumSeq(Arr([i \in 1..Len(x) |-> CMul(CSub(x[i], xm), CSub(x[i], xm))]))
             sxy == SumSeq(Arr([i \in 1..Len(x) |-> CMul(CSub(x[i], xm), CSub(y[i], ym))]))
         IN  Arr([i \in 1..Len(x) |-> CAdd(ym, CMul(CDiv(sxy, sxx), CSub(x[i], xm)))])

\* DSP.filter(residuals, width=wfrac, passband='high'): of the rectangular
\* high-pass filter only the rejection of the zero-frequency component is
\* modelled
highpass(x, wfrac) == Arr([i \in 1..Len(x) |-> CSub(x[i], Mean(x))])

\* the masks of timestamp t: lines 1275-1280 when all timestamps are treated
\* together (zenith limit), lines 1354-1357 otherwise (limits of timestamp t)
ne_lo(o, t) == CSub(delay_envelope(o)[t][2], delay_envelope(o)[t][1])
ne_hi(o, t) == CAdd(delay_envelope(o)[t][2], delay_envelope(o)[t][1])
left_outside_horizon_ind(o, t) ==
    IF treated_together(o) THEN MaskBelow(o.lags, CSub(CNeg(o.horizon), one_bin(o)))
    ELSE MaskBelow(o.lags, CSub(ne_lo(o, t), one_bin(o)))
right_outside_horizon_ind(o, t) ==
    IF treated_together(o) THEN MaskAbove(o.lags, CAdd(o.horizon, one_bin(o)))
    ELSE MaskAbove(o.lags, CAdd(ne_hi(o, t), one_bin(o)))
outside_horizon_ind(o, t) ==
    MaskOr(left_outside_horizon_ind(o, t), right_outside_horizon_ind(o, t))
inside_horizon_ind(o, t) ==
    IF treated_together(o) THEN MaskClosed(o.lags, CNeg(o.horizon), o.horizon)
    ELSE MaskOpen(o.lags, CAdd(ne_lo(o, t), one_bin(o)), CSub(ne_hi(o, t), one_bin(o)))

\* lines 1282-1314 / 1359-1387 for timestamp t: the fits on either side and
\* residuals = vis_lag_outside_horizon - poly_vis_lag_outside_horizon, the
\* data in the order of the lag axis, the fit left side first (NP.hstack).
\* NP.polyfit raises TypeError on an empty vector.
ne_residuals(o, t, polydegree) ==
    LET left  == left_outside_horizon_ind(o, t)
        right == right_outside_horizon_ind(o, t)
    IN  IF Len(Select(o.lags, left, TRUE)) = 0 \/ Len(Select(o.lags, right, TRUE)) = 0
        THEN [err |-> "TypeError", residuals |-> None]
        ELSE [err |-> "none",
              residuals |->
                 VSub(Select(o.vis_lag[t], outside_horizon_ind(o, t), TRUE),
                      polyfit_at(Select(o.lags, left, TRUE),
                                 Select(o.vis_lag[t], left, TRUE), polydegree)
                      \o polyfit_at(Select(o.lags, right, TRUE),
                                    Select(o.vis_lag[t], right, TRUE), polydegree))]

\* wfrac = 1.0 - 1.0/(horizon_limit*len(self.channels)*self.freq_resolution)
ne_wfrac(o) ==
    CSub(One, CDiv(One, CMul(o.horizon, CMul(Q(itf_nchan, 1), o.freq_resolution))))

\* lines 1334-1338 / 1393-1397 for timestamp t.  An RMS is held by its
\* square, so the scalings of the last two lines are squared.
ne_thermal(hpf) == SqrtSq(MeanPower(hpf))
ne_radicand(o, t, hpf) ==
    CSub(MeanPower(Select(o.vis_lag[t], inside_horizon_ind(o, t), TRUE)), ne_thermal(hpf))
ne_dictout(o, hpf_residuals) ==
    [thermal_noise |-> Arr([t \in 1..itf_ntime |->
         CDiv(ne_thermal(hpf_residuals[t]),
              CMul(Q(itf_nchan, 1), CMul(o.freq_resolution, o.freq_resolution)))]),
     foreground_noise |-> Arr([t \in 1..itf_ntime |->
         CDiv(SqrtSq(ne_radicand(o, t, hpf_residuals[t])),
              CMul(CMul(Q(itf_nchan, 1), o.freq_resolution),
                   CMul(Q(itf_nchan, 1), o.freq_resolution)))])]

\* lines 1239-1249: the fallback transform, then the check of polydegree
ne_enter(o, polydegree) ==
    IF ne_fallback(o).err # "none" THEN ne_fallback(o)
    ELSE IF polydegree < 0 THEN [err |-> "ValueError", itf |-> ne_fallback(o).itf]
    ELSE ne_fallback(o)

\* the visibilities observed (values of the four live channels, per timestamp)
ItfData ==
    { << <<One, Zero, Zero, Zero>>, <<Zero, One, Zero, Zero>> >>,
      << <<Q(4, 1), One, Zero, Zero>>, <<Zero, Q(2, 1), One, Zero>> >>,
      << <<One, Q(2, 1), Q(3, 1), Q(4, 1)>>, <<Zero, One, Zero, <<0, 1, 1>> >> >> }
\* pointing centres: zenith throughout; off zenith by less than half a delay
\* bin throughout; zenith, then off zenith by more than half a delay bin
ItfPointings ==
    { <<Zero, Zero>>, <<Q(1, 8), Q(1, 8)>>, <<Zero, Q(1, 3)>> }
PolyDegrees == { -1, 0, 1, 4 }
FilterMethods == { "hpf", "ma" }
ItfPads == { Pad(Zero), Pad(Q(-1, 2)), [scalar |-> FALSE, v |-> Zero] }

\* the running or last call on the Interferometer, with the locals of
\* band_averaged_noise_estimate and the dictionary it returned
NoNSE == [op |-> "none", polydegree |-> 0, filter_method |-> "none",
          together |-> FALSE, residuals |-> None, hpf_residuals |-> None,
          filter |-> "none", out |-> None]

InitNE ==
    /\ ia = None /\ ds = None /\ cl = None
    /\ pc = "idle"
    /\ gc = None
    /\ gcres = None
    /\ err = "none"
    /\ last = NoCall
    /\ nops = 0
    /\ bc = NoBC
    /\ np = None
    /\ nse = NoNSE /\ hl = None
    /\ \E data \in ItfData, pointing \in ItfPointings : itf = Interferometer(data, pointing)

ItfDelayTransform(pad) ==
    /\ pc = "idle" /\ nops < MaxOps
    /\ itf' = itf_delay_transform(itf, pad).itf
    /\ err' = itf_delay_transform(itf, pad).err
    /\ nse' = [NoNSE EXCEPT !.op = "delay_transform"]
    /\ nops' = nops + 1
    /\ UNCHANGED <<ia, ds, pc, cl, gc, gcres, last, bc, np, hl>>

\* band_averaged_noise_estimate(polydegree, filter_method) up to line 1249
NoiseEstimate(polydegree, filter_method) ==
    /\ pc = "idle" /\ nops < MaxOps
    /\ itf' = ne_enter(itf, polydegree).itf
    /\ err' = ne_enter(itf, polydegree).err
    /\ pc' = IF ne_enter(itf, polydegree).err = "none" THEN "ne_fit" ELSE "idle"
    /\ nse' = [NoNSE EXCEPT !.op = "band_averaged_noise_estimate",
                            !.polydegree = polydegree, !.filter_method = filter_method]
    /\ nops' = nops + 1
    /\ UNCHANGED <<ia, ds, cl, gc, gcres, last, bc, np, hl>>

\* lines 1272-1314 / 1349-1387: branch, masks, fits, residuals
NEFit ==
    /\ pc = "ne_fit"
    /\ IF \E t \in 1..itf_ntime : ne_residuals(itf, t, nse.polydegree).err # "none"
       THEN /\ err' = "TypeError"
            /\ pc' = "idle"
            /\ nse' = [nse EXCEPT !.together = treated_together(itf)]
       ELSE /\ err' = err
            /\ pc' = "ne_filter"
            /\ nse' = [nse EXCEPT !.together = treated_together(itf),
                          !.residuals = Arr([t \in 1..itf_ntime |->
                              ne_residuals(itf, t, nse.polydegree).residuals])]
    /\ UNCHANGED <<ia, ds, cl, gc, gcres, last, nops, bc, np, itf, hl>>

\* lines 1328-1330 / 1389-1391: the filter, whatever filter_method is
NEFilter ==
    /\ pc = "ne_filter"
    /\ nse' = [nse EXCEPT !.filter = "hpf",
                  !.hpf_residuals = Arr([t \in 1..itf_ntime |->
                      highpass(nse.residuals[t], ne_wfrac(itf))])]
    /\ pc' = "ne_return"
    /\ UNCHANGED <<ia, ds, cl, gc, gcres, err, last, nops, bc, np, itf, hl>>

\* lines 1332-1342 / 1393-1403: the two RMS and the return
NEReturn ==
    /\ pc = "ne_return"
    /\ nse' = [nse EXCEPT !.out = ne_dictout(itf, nse.hpf_residuals)]
    /\ pc' = "idle"
    /\ UNCHANGED <<ia, ds, cl, gc, gcres, err, last, nops, bc, np, itf, hl>>

NextNE ==
    \/ \E pad \in ItfPads : ItfDelayTransform(pad)
    \/ \E polydegree \in PolyDegrees, filter_method \in FilterMethods :
          NoiseEstimate(polydegree, filter_method)
    \/ NEFit
    \/ NEFilter
    \/ NEReturn

SpecNE == InitNE /\ [][NextNE]_vars

\* --------------------------------------------------------------------------
\* get_horizon_delay_limits() called with arguments, on DelaySpectrum objects
\* built from visibility objects of every accepted phase-centre tag
\* --------------------------------------------------------------------------
NoHL == [phase_center |-> None, phase_center_coords |-> NoTag, envelope |-> None]

\* (phase_center, phase_center_coords) of the calls made; None is a missing
\* argument
HLCenters == { None, <<Zero, One>> }
HLCoords == { NoTag, "hadec", "altaz", "dircos", "radec", "galactic" }

InitHL ==
    /\ \E pc0 \in PC0, coords \in {"hadec", "altaz", "dircos"} :
          /\ ia = InterferometerArray(1, 1, 0, pc0, coords)
          /\ ds = DelaySpectrum(InterferometerArray(1, 1, 0, pc0, coords))
    /\ pc = "idle"
    /\ cl = None
    /\ gc = None
    /\ gcres = None
    /\ err = "none"
    /\ last = NoCall
    /\ nops = 0
    /\ bc = NoBC
    /\ np = None /\ itf = None /\ nse = None
    /\ hl = NoHL

\* DelaySpectrum.get_horizon_delay_limits(phase_center, phase_center_coords)
GetHorizonDelayLimits(phase_center, phase_center_coords) ==
    /\ pc = "idle" /\ nops < MaxOps
    /\ hl' = [phase_center |-> phase_center, phase_center_coords |-> phase_center_coords,
              envelope |-> ghdl(ia, phase_center, phase_center_coords).envelope]
    /\ err' = ghdl(ia, phase_center, phase_center_coords).err
    /\ last' = Call("get_horizon_delay_limits", Pad(Zero), NoWts)
    /\ nops' = nops + 1
    /\ UNCHANGED <<ia, ds, pc, cl, gc, gcres, bc, np, itf, nse>>

NextHL ==
    \/ \E phase_center \in HLCenters, phase_center_coords \in HLCoords :
          GetHorizonDelayLimits(phase_center, phase_center_coords)
    \/ \E a \in PCArgs : PhaseCentering(a[1], a[2])
    \/ SetHorizonDelayLimits

SpecHL == InitHL /\ [][NextHL]_vars

\* --------------------------------------------------------------------------
\* Properties
\* --------------------------------------------------------------------------
\* the window of the unit clean() is at, on an all-zero mask
unit_window(c, d) ==
    window_update(Arr([i \in 1..Len(c.lags) |-> 0]), c.lags,
                  d.horizon_delay_limits[c.snap_iter][c.bl_iter],
                  c.clean_window_buffer, c.bw)

\* C1: in clean(), the mask handed to _gentle_clean for unit (b, s) is 1
\* exactly on the lag bins inside that unit's horizon window widened by
\* clean_window_buffer/bandwidth and 0 on every other bin, whatever units were
\* processed before it.
C1_MaskIsUnitWindow ==
    (pc = "gc" /\ gc.ret \in {"sky", "obs"}) => gc.g.area = unit_window(cl, ds)

\* C2: the clean components and residual clean() obtains for a unit do not
\* depend on the units processed before it: they are what _gentle_clean gives
\* for that unit processed first, on its own window.
C2_OrderIndependent ==
    (pc = "gc" /\ gc.ret = "sky" /\ ~gc_cond(gc.g)) =>
        LET alone == gentle_clean(Col(cl.skyvis_lag, cl.bl_iter, cl.snap_iter),
                                  Col(cl.lag_kernel, cl.bl_iter, cl.snap_iter),
                                  unit_window(cl, ds), FALSE, DefaultMaxIter)
            r == gc_exit(gc.g)
        IN  r.cc = alone.cc /\ r.res = alone.res

\* C3: _gentle_clean never executes more than 1000 passes of its main loop.
C3_AtMost1000Passes ==
    (pc \in {"gc", "done"} /\ gc # None) => gc.g.ncycle <= 1000

\* C4: a call of _gentle_clean with an all-zero PSF (scale factor 0) ends in
\* a DegeneratePSF error before any CLEAN pass is run and returns nothing.
C4_DegeneratePSF ==
    (gc # None /\ gc.ret = "direct" /\ gc.g.scale_factor = Zero) =>
        (err = "DegeneratePSF" /\ gcres = None)

\* C6: the horizon delay limits a running clean() uses are the horizon
\* envelope of the current phase centre of the visibility object.
C6_LimitsOfCurrentPhaseCentre ==
    pc = "gc" => ds.horizon_delay_limits = horizon_delay_limits(ia.phase_center)

\* C7: the kernel clean() hands to _gentle_clean for a unit is that unit's
\* column of the delay transform of bp * bp_wts.
C7_KernelOfWeightedBandpass ==
    (pc = "gc" /\ gc.ret = "sky") =>
        VScale(gc.g.w, gc.g.scale_factor)
            = Col(lag_transform(CubeMul(ds.bp, ds.bp_wts), NPad(clamp_pad(last.pad.v)), FALSE),
                  cl.bl_iter, cl.snap_iter)

\* the documented meaning of a freq_wts array of the given layout
documented_wt(b, c, s) ==
    CASE bc.layout = "nchan" -> bc.w.data[c]
      [] bc.layout = "nchan x n_snapshots" -> bc.w.data[(c - 1) * bc.n_snap + s]
      [] bc.layout = "n_baselines x nchan" -> bc.w.data[(b - 1) * bc.n_ch + c]
      [] bc.layout = "n_baselines x nchan x n_snapshots" ->
            bc.w.data[((b - 1) * bc.n_ch + (c - 1)) * bc.n_snap + s]

\* C8: for every n_baselines, nchan and n_snapshots, each of the four
\* documented freq_wts layouts is broadcast to the cube by its documented
\* meaning; an n_baselines x nchan array is never read as nchan x n_snapshots.
C8_DocumentedBroadcast ==
    bc.applied =>
        \A b \in 1..bc.n_bl, c \in 1..bc.n_ch, s \in 1..bc.n_snap :
            bc.out[b][c][s] = documented_wt(b, c, s)

\* the forward transform of a lag spectrum x given on the lag axis lags:
\* channel n is sum_k x[k] exp(-2 pi i (n - 1) df lags[k]) times the lag-bin
\* width (the step between the first two entries of the unshifted axis)
forward_transform(x, lags) ==
    LET N == Len(x)
        unshifted == ifftshift(lags)
        deta == CSub(unshifted[2], unshifted[1])
        bin == Arr([k \in 1..N |-> Floor(CMul(CMul(lags[k], df), Q(N, 1)))])
    IN  Arr([n \in 1..N |->
            CMul(SumSeq(Arr([k \in 1..N |-> CMul(x[k], Omega(N, -((n - 1) * bin[k])))])),
                 deta)])
forward_cube(cube, lags) ==
    Arr([b \in 1..nbl |->
        LET cols == Arr([s \in 1..n_acc |-> forward_transform(Col(cube, b, s), lags)])
        IN  Arr([i \in 1..Len(cols[1]) |-> Arr([s \in 1..n_acc |-> cols[s][i]])])])

\* C5: after clean(), for the sky and the observed products, the net delay
\* cube is components plus residuals, the net frequency cube is cc_*_freq plus
\* cc_*_res_freq, and the net frequency cube is the forward transform, scaled
\* by the lag-bin width, of the net delay cube on the stored lag axis.
C5_NetProducts ==
    (pc = "idle" /\ last.op = "clean" /\ err = "none") =>
        /\ ds.cc_skyvis_net_lag = CubeAdd(ds.cc_skyvis_lag, ds.cc_skyvis_res_lag)
        /\ ds.cc_vis_net_lag = CubeAdd(ds.cc_vis_lag, ds.cc_vis_res_lag)
        /\ ds.cc_skyvis_net_freq = CubeAdd(ds.cc_skyvis_freq, ds.cc_skyvis_res_freq)
        /\ ds.cc_vis_net_freq = CubeAdd(ds.cc_vis_freq, ds.cc_vis_res_freq)
        /\ ds.cc_skyvis_net_freq = forward_cube(ds.cc_skyvis_net_lag, ds.lags)
        /\ ds.cc_vis_net_freq = forward_cube(ds.cc_vis_net_lag, ds.lags)

\* a finished clean() with padding that found components and left residuals
C5_Witness ==
    /\ pc = "idle" /\ last.op = "clean" /\ err = "none"
    /\ Len(ds.lags) = 2 * nchan
    /\ \E b \in 1..nbl, s \in 1..n_acc :
          /\ \E i \in 1..(2 * nchan) : ds.cc_vis_lag[b][i][s] \notin {Zero, NaN}
          /\ \E i \in 1..(2 * nchan) : ds.cc_vis_res_lag[b][i][s] \notin {Zero, NaN}
          /\ \E i \in 1..(2 * nchan) : ds.cc_vis_net_freq[b][i][s] \notin {Zero, NaN}

\* freq_wts whose size is none of the four accepted ones
Mismatch(w) ==
    /\ ~w.isNone
    /\ Len(w.data) \notin {nchan, nchan * n_acc, nchan * nbl, nchan * nbl * n_acc}

\* C9: a delay_transform() call (of either class) with freq_wts of a size
\* that is none of nchan, nchan*n_snapshots, nchan*n_baselines,
\* nchan*n_baselines*n_snapshots raises ValueError and leaves bp_wts and the
\* delay-domain attributes of the object as they were.
C9_WrongSizeRaises ==
    [][ (nops' = nops + 1 /\ last'.pad.scalar /\ Mismatch(last'.wts)) =>
            /\ last'.op = "delay_transform" => (err' = "ValueError" /\ ds' = ds)
            /\ last'.op = "ia.delay_transform" => (err' = "ValueError" /\ ia' = ia)
      ]_vars

\* a wrong-size call rejected on an object that already holds weights and
\* delay-domain products
C9_Witness ==
    /\ last.op = "delay_transform" /\ Mismatch(last.wts) /\ err = "ValueError"
    /\ ds.vis_lag # None
    /\ ds.bp_wts # ia.bp_wts

\* C10: a negative pad never raises; delay_transform() and clean() do with it
\* exactly what they do with pad = 0, and delay_transform() records pad 0.0.
C10_NegativePadIsZero ==
    [][ (nops' = nops + 1 /\ last'.pad.scalar /\ RLt(last'.pad.v, Zero)) =>
            /\ last'.op = "delay_transform" =>
                  LET r0 == ds_delay_transform(ds, ia, Pad(Zero), last'.wts, last'.down)
                  IN  /\ err' = r0.err /\ err' # "TypeError"
                      /\ ds' = r0.ds
                      /\ err' = "none" => ds'.pad = Zero
            /\ last'.op = "clean" =>
                  LET e0 == enter_unit(clean_begin(ds, ia, Pad(Zero), last'.cwb), ds)
                  IN  err' = "none" /\ pc' = "gc" /\ cl' = e0.cl /\ gc' = e0.gc
      ]_vars

\* a delay_transform() with a negative pad that returned
C10_Witness ==
    /\ last.op = "delay_transform" /\ RLt(last.pad.v, Zero) /\ err = "none"
    /\ ds.pad = Zero /\ Len(ds.lags) = nchan /\ Len(ds.vis_lag[1]) = nchan


\* round() of a non-negative number, halves away from zero
Round(x) == Floor(CAdd(x, Q(1, 2)))

\* C11: the number of appended channels is round(nchan*pad) and the lag axis
\* before downsampling has round(nchan*(1+pad)) bins
C11_RoundedPadLengths ==
    (np # None /\ np.applied) =>
        /\ np.npad = Round(CMul(Q(np.nchan, 1), np.pad))
        /\ np.nlags = Round(CMul(Q(np.nchan, 1), CAdd(One, np.pad)))

\* C12: when delay_transform() or band_averaged_noise_estimate() rejects an
\* invalid argument (non-scalar pad, non-boolean downsample, negative
\* polydegree), every attribute of the object has the value it had before
\* the call
C12_RejectedCallChangesNothing ==
    [][ /\ (last'.op = "delay_transform" /\ nops' = nops + 1 /\ err' = "TypeError"
              /\ (~last'.pad.scalar \/ ~last'.down.isbool)
            => ds' = ds)
        /\ (nse'.op = "delay_transform" /\ nops' = nops + 1 /\ err' = "TypeError"
            => itf' = itf)
        /\ (nse'.op = "band_averaged_noise_estimate" /\ nops' = nops + 1
              /\ nse'.polydegree < 0 /\ err' = "ValueError"
            => itf' = itf) ]_vars

\* the unit (b, s) is one on which Gentle-CLEAN fails: its bandpass, hence
\* its kernel, is zero throughout
failing_unit(b, s) == \A c \in 1..nchan : ia.bp[b][c][s] = Zero
Finite(x) == \A i \in 1..Len(x) : ~IsNaN(x[i])
NonZero(x) == \E i \in 1..Len(x) : ~IsNaN(x[i]) /\ x[i] # Zero
clean_returned == pc = "idle" /\ last.op = "clean" /\ err = "none"

shifted_transform(cube) ==
    AlongAxis1(fftshift, lag_transform(CubeMul(CubeMul(cube, ds.bp), ds.bp_wts),
                                       NPad(clamp_pad(last.pad.v)), FALSE))

\* C14: after clean() has returned, skyvis_lag and vis_lag hold the
\* fftshifted padded inverse transforms of skyvis_freq*bp*bp_wts and
\* vis_freq*bp*bp_wts scaled by (nchan+npad)*df: the division by max|psf|
\* made by Gentle-CLEAN is not left applied to them
C14_VisibilityCubesUnscaled ==
    clean_returned =>
        /\ ds.skyvis_lag = shifted_transform(ia.skyvis_freq)
        /\ ds.vis_lag = shifted_transform(ia.vis_freq)

\* some pointing-centre delay offset exceeds half a delay bin
offset_exceeds ==
    \E t \in 1..itf_ntime :
        RGt(RAbs(CMul(itf.horizon, itf.pointing_center[t])),
            CDiv(Q(1, 2), CMul(Q(itf_nchan, 1), itf.freq_resolution)))

\* C15: band_averaged_noise_estimate processes every timestamp independently
\* exactly when a pointing-centre delay offset exceeds half a delay bin, and
\* treats all timestamps together with the zenith limit only when none does
C15_IndependentWhenOffsetExceeds ==
    (nse.op = "band_averaged_noise_estimate" /\ pc \in {"ne_filter", "ne_return"}) =>
        (nse.together <=> ~offset_exceeds)

estimate_returned ==
    nse.op = "band_averaged_noise_estimate" /\ pc = "idle" /\ nse.out # None
\* the in-horizon mean power of timestamp t and the thermal-noise power the
\* call reports for it (its squared RMS before the scaling of line 1337)
in_horizon_power(t) == MeanPower(Select(itf.vis_lag[t], inside_horizon_ind(itf, t), TRUE))
thermal_power(t) ==
    CMul(nse.out.thermal_noise[t],
         CMul(Q(itf_nchan, 1), CMul(itf.freq_resolution, itf.freq_resolution)))

\* C16: when the in-horizon mean power is smaller than the thermal-noise
\* power, band_averaged_noise_estimate returns normally with the foreground
\* RMS of that timestamp NaN and its thermal RMS still reported
C16_NegativeRadicandIsNaN ==
    estimate_returned =>
        \A t \in 1..itf_ntime :
            RLt(in_horizon_power(t), thermal_power(t)) =>
                /\ err = "none"
                /\ IsNaN(nse.out.foreground_noise[t])
                /\ ~IsNaN(nse.out.thermal_noise[t])
C16_Witness ==
    /\ estimate_returned
    /\ \E t \in 1..itf_ntime :
          /\ RLt(in_horizon_power(t), thermal_power(t))
          /\ IsNaN(nse.out.foreground_noise[t])
    /\ \E t \in 1..itf_ntime : ~IsNaN(nse.out.foreground_noise[t])

\* C17: band_averaged_noise_estimate honours filter_method: the filtering
\* step applied to the residuals is the one the argument names ('hpf' the
\* rectangular high-pass filter, 'ma' the moving-average window)
C17_FilterSelectedByArgument ==
    (nse.op = "band_averaged_noise_estimate" /\ nse.hpf_residuals # None) =>
        nse.filter = nse.filter_method

\* no window: every weight 1
unit_wts == Cube(LAMBDA b, c, s : One, nchan)
\* the delay-domain products of a delay transform of object d (a
\* DelaySpectrum) or a (an InterferometerArray) weighted by bp alone
bp_only_ds(d, a, call) ==
    ds_delay_transform([d EXCEPT !.bp_wts = unit_wts], a, call.pad, NoWts, call.down).ds
bp_only_ia(a, call) ==
    ia_delay_transform([a EXCEPT !.bp_wts = unit_wts], call.pad, NoWts).ia

\* C18: delay_transform() called with freq_wts=None applies no window: only
\* the bandpass bp weights the visibilities, whatever freq_wts earlier
\* delay_transform() calls on the same object were given
C18_NoneMeansNoWindow ==
    [][ /\ (nops' = nops + 1 /\ last'.op = "delay_transform" /\ last'.wts = NoWts
              /\ err' = "none"
            => /\ ds'.vis_lag = bp_only_ds(ds, ia, last').vis_lag
               /\ ds'.skyvis_lag = bp_only_ds(ds, ia, last').skyvis_lag
               /\ ds'.vis_noise_lag = bp_only_ds(ds, ia, last').vis_noise_lag)
        /\ (nops' = nops + 1 /\ last'.op = "ia.delay_transform" /\ last'.wts = NoWts
              /\ err' = "none"
            => /\ ia'.vis_lag = bp_only_ia(ia, last').vis_lag
               /\ ia'.skyvis_lag = bp_only_ia(ia, last').skyvis_lag) ]_vars

\* C19: the freq_wts argument of clean() is the window applied before the
\* delay transform: clean(freq_wts=w) transforms the visibilities weighted by
\* bp and by w broadcast as documented
C19_CleanAppliesItsWindow ==
    [][ (nops' = nops + 1 /\ last'.op = "clean" /\ last'.wts # NoWts /\ err' = "none")
        => /\ cl'.vis_lag =
                lag_transform(CubeMul(CubeMul(ia.vis_freq, ds.bp),
                                      broadcast_wts(last'.wts, nbl, nchan, n_acc).wts),
                              NPad(clamp_pad(last'.pad.v)), FALSE)
           /\ cl'.skyvis_lag =
                lag_transform(CubeMul(CubeMul(ia.skyvis_freq, ds.bp),
                                      broadcast_wts(last'.wts, nbl, nchan, n_acc).wts),
                              NPad(clamp_pad(last'.pad.v)), FALSE) ]_vars

\* the length of the lag axis (axis 1) of a cube
lag_axis_len(cube) == Len(cube[1])

\* C20: after any sequence of delay_transform() and clean() calls on a
\* DelaySpectrum, vis_lag, skyvis_lag and vis_noise_lag have the same shape
\* and their lag-axis length is the length of lags (stated for the cubes
\* that have been computed; the other two axes never change)
C20_LagCubesShareShape ==
    (pc = "idle" /\ ds.lags # None) =>
        /\ ds.vis_lag # None => lag_axis_len(ds.vis_lag) = Len(ds.lags)
        /\ ds.skyvis_lag # None => lag_axis_len(ds.skyvis_lag) = Len(ds.lags)
        /\ ds.vis_noise_lag # None => lag_axis_len(ds.vis_noise_lag) = Len(ds.lags)

\* C21: phase_centering() rotates the frequency-domain cubes only: vis_lag,
\* skyvis_lag and vis_noise_lag of the visibility object keep the values an
\* earlier delay_transform() gave them
C21_PhaseCenteringKeepsDelayProducts ==
    [][ (nops' = nops + 1 /\ last'.op = "phase_centering" /\ err' = "none"
           /\ ia.vis_lag # None)
        => /\ ia'.vis_lag = ia.vis_lag
           /\ ia'.skyvis_lag = ia.skyvis_lag
           /\ ia'.vis_noise_lag = ia.vis_noise_lag ]_vars

\* the tag and the centre a get_horizon_delay_limits() call works with
hl_coords == IF hl.phase_center = None THEN ia.phase_center_coords ELSE hl.phase_center_coords
hl_center == IF hl.phase_center = None THEN ia.phase_center ELSE hl.phase_center

gc_returned == pc = "done" /\ gc # None /\ gcres # None

\* C23: for every spectrum, PSF and mask, a _gentle_clean call with
\* maxiter > 0 runs at least one CLEAN pass in its main loop
C23_LoopRunsAtLeastOnce ==
    (gc_returned /\ gc.g.maxiter > 0) => gc.g.ncycle >= 1

\* NP.std (as its square) of the returned residual inside and outside the mask
returned_inside_res == Var(Select(gcres.res, gc.g.area, TRUE))
returned_outside_res == Var(Select(gcres.res, gc.g.area, FALSE))

\* C24: when _gentle_clean returns, either the cycle cap was reached or the
\* returned residual has a standard deviation inside the mask no larger than
\* outside it, and final_residual is the in-mask standard deviation of the
\* returned residual
C24_ReturnsConvergedResidual ==
    gc_returned =>
        /\ gc.g.ncycle > MaxCycle \/ RLe(returned_inside_res, returned_outside_res)
        /\ gcres.final_residual = returned_inside_res

\* C25: the ncycle _gentle_clean reports is the number of cycles its main
\* loop executed, runs of zero cycles and runs stopped at the cap included
C25_NcycleCountsCycles ==
    gc_returned => gcres.ncycle = gc.g.ncycle

\* what the first CLEAN pass of the call in frame g (line 68) put out
first_pass(g) == deconv_clean(g.arg_dd, g.w, g.area, FALSE, FALSE)
\* the call in frame g is at its return with no main-loop pass made, and
\* hands back the residual of the first pass
returns_first_pass(g) ==
    ~gc_cond(g) /\ g.ncycle = 0 /\ gc_exit(g).res = first_pass(g).res

\* C26: the first CLEAN pass is diagnostic only: what _gentle_clean returns
\* to clean() for a unit, and clean() stores, is never the output of that
\* first pass, also when the main loop does not execute
C26_FirstPassIsDiagnosticOnly ==
    (pc = "gc" /\ gc.ret \in {"sky", "obs"}) => ~returns_first_pass(gc.g)

\* C27: every main-loop CLEAN pass made on behalf of clean() runs with
\* stop_if_div=True and pos_def=True; only the first, diagnostic pass runs
\* with stop_if_div=False
C27_LoopPassesStopOnDivergence ==
    (pc = "gc" /\ gc.ret \in {"sky", "obs"}) =>
        IF gc.g.ncycle >= 1
        THEN gc.g.info.stop_if_div /\ gc.g.info.pos_def
        ELSE ~gc.g.info.stop_if_div

\* the number of selected bins among the first i bins of a 0/1 mask
RECURSIVE Rank(_, _)
Rank(mask, i) == IF i = 0 THEN 0 ELSE (IF mask[i] = 1 THEN 1 ELSE 0) + Rank(mask, i - 1)

\* the polynomial fitted to the side of lag bin i, evaluated at the lag of
\* bin i (timestamp t, an outside-horizon bin)
fit_at_bin(t, i) ==
    IF left_outside_horizon_ind(itf, t)[i] = 1
    THEN polyfit_at(Select(itf.lags, left_outside_horizon_ind(itf, t), TRUE),
                    Select(itf.vis_lag[t], left_outside_horizon_ind(itf, t), TRUE),
                    nse.polydegree)[Rank(left_outside_horizon_ind(itf, t), i)]
    ELSE polyfit_at(Select(itf.lags, right_outside_horizon_ind(itf, t), TRUE),
                    Select(itf.vis_lag[t], right_outside_horizon_ind(itf, t), TRUE),
                    nse.polydegree)[Rank(right_outside_horizon_ind(itf, t), i)]
\* data minus fit at the same lag, for the outside-horizon bins in the order
\* of the lag axis
same_lag_residuals(t) ==
    Select(Arr([i \in 1..Len(itf.lags) |->
                  IF outside_horizon_ind(itf, t)[i] = 1
                  THEN CSub(itf.vis_lag[t][i], fit_at_bin(t, i)) ELSE Zero]),
           outside_horizon_ind(itf, t), TRUE)

\* C28: in band_averaged_noise_estimate the residual of every outside-horizon
\* lag bin is vis_lag at that bin minus the fitted polynomial evaluated at
\* that bin's lag, whether the lag axis comes from an earlier
\* delay_transform() (zero-centred) or from the estimator's own transform
\* (natural FFT order)
C28_FitSubtractedAtSameLag ==
    (nse.op = "band_averaged_noise_estimate" /\ pc = "ne_filter") =>
        \A t \in 1..itf_ntime : nse.residuals[t] = same_lag_residuals(t)

\* the lag kernel clean() computes before its loop: the padded, scaled
\* inverse transform of bp for the pad of the running or last clean()
transformed_kernel == lag_transform(ds.bp, NPad(clamp_pad(last.pad.v)), FALSE)

\* C29: _gentle_clean returns with the PSF array it was given holding its
\* entry values, so throughout clean() the kernel cube is the transformed
\* kernel (both calls of a unit deconvolve against the same kernel) and the
\* lag_kernel clean() stores is the transformed kernel, fftshifted
C29_KernelRestoredOnReturn ==
    /\ (pc = "gc" /\ gc.ret \in {"sky", "obs"}) =>
          /\ cl.lag_kernel = transformed_kernel
          /\ ~gc_cond(gc.g) =>
                gc_exit(gc.g).w = Col(cl.lag_kernel, cl.bl_iter, cl.snap_iter)
    /\ clean_returned => ds.lag_kernel = AlongAxis1(fftshift, transformed_kernel)

\* the pad a call works with: a negative pad is 0
pad_in_effect(p) == IF RLt(p, Zero) THEN Zero ELSE p
\* the number of lag bins of an un-downsampled transform with pad p
lag_bins(p) == nchan + Floor(CMul(Q(nchan, 1), pad_in_effect(p)))

====
